---- MODULE Spec2Model ----
(***************************************************************************)
(* Model of src/src/scp.c: the SuperCard Pro (SCP) flux image reader, its  *)
(* flux iterator, the software PLL and the track decode loop               *)
(* scp_write_mfm.                                                          *)
(*                                                                         *)
(* Two state machines share the variables:                                 *)
(*   Spec     a client calling scp_select_track, scp_reset and             *)
(*            scp_next_flux in any order (as scp_print_track does);        *)
(*   SpecMfm  scp_write_mfm itself, statement by statement; FairMfm adds   *)
(*            the progress of a sequential program.                        *)
(* scp_next_flux and the accumulation loop of pll_next_bit are modelled    *)
(* one loop iteration per step, because they need not terminate.           *)
(*                                                                         *)
(* Arithmetic: the C code computes in 32-bit int/unsigned.  With at most   *)
(* MaxSamples consecutive zero samples the largest value formed is         *)
(* 25 * (MaxSamples * 65536 + 65535) < 2^31, so no operation of the model  *)
(* can wrap and plain integers are exact.                                  *)
(***************************************************************************)
EXTENDS Integers, Sequences, FiniteSets, TLC

(***************************************************************************)
(* Bounds of the model (not program constants).                            *)
(***************************************************************************)
\* most samples in one revolution of an enumerated track
MaxSamples == 2
\* most revolutions in an enumerated header (the format allows REV_MAX)
MaxRevs == 2
\* half-bit cells per track; stands for the 12800*8 of scp.c:394,396
TrackCells == 8
\* counters n, writer.halfbits and writer.bytes saturate TrackCells + CountSlack
CountSlack == 3
\* pll.time saturates here (it is write-only in scp.c)
TimeCap == 150000
\* calls a client of Spec may make
MaxCalls == 5
\* pll_next_bit calls SpecPll makes on one PLL, and calls `hist` records
MaxPllCalls == 50

(***************************************************************************)
(* Program constants.                                                      *)
(***************************************************************************)
CLOCK_CENTRE == 2000
CLOCK_MAX_ADJ == 10
PERIOD_ADJ_PCT == 5
PHASE_ADJ_PCT == 60
NS_PER_TICK == 25
OVERFLOW_TICKS == 65536
NR_TRACKS == 160
FILLER_BYTES == 6400
REV_MAX == 5

CLOCK_MIN(c) == (c * (100 - CLOCK_MAX_ADJ)) \div 100
CLOCK_MAX(c) == (c * (100 + CLOCK_MAX_ADJ)) \div 100

\* CDiv rounding toward minus infinity
CDiv_Floor(a, b) == a \div b

\* C's integer division for a positive divisor: truncation toward zero.
CDiv(a, b) == IF a >= 0 THEN a \div b ELSE -((-a) \div b)

CountCap == TrackCells + CountSlack
SatCount(x) == IF x > CountCap THEN CountCap ELSE x
SatTime(x) == IF x > TimeCap THEN TimeCap ELSE x

(***************************************************************************)
(* Bytes and samples.  A sample is two bytes, most significant first, in   *)
(* the file and in sf->dat; be16toh decodes it when it is read.            *)
(***************************************************************************)
Be16toh(hi, lo) == hi * 256 + lo

\* The two bytes of a 16-bit value as the capture hardware stores them.
Be16Bytes(v) == <<v \div 256, v % 256>>

RECURSIVE Flatten(_)
Flatten(ss) == IF ss = <<>> THEN <<>> ELSE Be16Bytes(Head(ss)) \o Flatten(Tail(ss))

\* read_exact: `count` bytes from a file region holding `avail` before the
\* end of file; read() returning 0 zero-fills the remainder.
ReadExact(avail, count) ==
  [i \in 1..count |-> IF i <= Len(avail) THEN avail[i] ELSE 0]

VARIABLES
  disk,     \* the SCP file after the header: the track records and sample arrays
  sf,       \* scp_file_t: header, track, dat (datp: dat != NULL), datsz, index_ptr, iter_ptr, iter_limit
  pll,      \* pll_t: rev, clock, flux, time, clocked_zeros
  pc,       \* position of the running code
  val,      \* the local `val` of the scp_next_flux call in progress
  ret,      \* the value the last completed call returned
  io,       \* lseek and read_exact calls made so far
  rev,      \* scp_write_mfm: the revolution argument
  tn,       \* scp_write_mfm: the track loop variable
  n,        \* scp_write_mfm: the half-bit counter (saturating at CountCap)
  writer,   \* the MFM sink: calls received since mfm_write_reset, and `last`
  ctx,      \* who called the code at pc: "client", or line 385 ("first") or 388 ("loop")
  op,       \* the last call a client made; for scp_next_flux with the cursor it found
  selRet,   \* <<r>>, r what the most recent scp_select_track returned; <<>> before
  reads,    \* <<rev, index>> of every sample read since the last scp_reset or load
  calls,    \* Spec, SpecPll: calls the client has made
  cur,      \* the pll_next_bit call in progress: the cursor it found, samples it read
  hist      \* the pll_next_bit calls completed since pll_init, as PllCallRecord

vars == <<disk, sf, pll, pc, val, ret, io, rev, tn, n, writer, ctx, op, selRet,
          reads, calls, cur, hist>>

(***************************************************************************)
(* The file.  disk[t] is what lies at header.track_offset[t]; a revolution *)
(* descriptor's offset is modelled by the pair <<t, r>> naming the region  *)
(* its sample array starts at, and a region holds the bytes the file has   *)
(* there before its end.                                                   *)
(***************************************************************************)
\* track_offset[t] = 0 (track absent): the seek lands on the disk header,
\* whose signature is "SCP" and whose fourth byte is the format version.
AbsentTrack == [seek |-> TRUE, sig |-> "SCP", track_nr |-> 0, rev |-> <<>>]

DiskTrack(d, t) == IF t \in DOMAIN d THEN d[t] ELSE AbsentTrack

Region(d, off) == DiskTrack(d, off[1]).rev[off[2] + 1]

\* The track header as read_exact stores it in sf->track (4 + 12*R bytes),
\* offsets rebased on the track header (lines 132, 143-148).
TrackHeader(rec, t, R) ==
  [sig |-> rec.sig, track_nr |-> rec.track_nr,
   rev |-> [r \in 1..(IF Len(rec.rev) < R THEN Len(rec.rev) ELSE R) |->
              [nr_samples |-> rec.rev[r].nr_samples, offset |-> <<t, r - 1>>]]]

RECURSIVE SumSamples(_)
SumSamples(revs) ==
  IF revs = <<>> THEN 0 ELSE Head(revs).nr_samples + SumSamples(Tail(revs))

\* The read loop of scp_select_track (lines 157-164), from revolution r on.
RECURSIVE LoadRevs(_, _, _, _)
LoadRevs(s, d, r, ios) ==
  IF r >= s.header.nr_revolutions
  THEN [sf |-> s, ret |-> 0, io |-> ios, fatal |-> FALSE]
  ELSE LET desc == s.track.rev[r + 1]
           region == Region(d, desc.offset)
           data == ReadExact(region.bytes, 2 * desc.nr_samples)
           lo == 2 * s.datsz
           hi == 2 * (s.datsz + desc.nr_samples)
           s1 == [s EXCEPT
                    !.dat = [i \in 1..Len(s.dat) |->
                               IF i > lo /\ i <= hi THEN data[i - lo] ELSE s.dat[i]],
                    !.datsz = s.datsz + desc.nr_samples,
                    !.index_ptr[r] = s.datsz + desc.nr_samples]
       IN IF ~region.seek
          THEN [sf |-> s, ret |-> -1, io |-> ios + 1, fatal |-> FALSE]
          ELSE LoadRevs(s1, d, r + 1, ios + 2)

\* AlreadyLoaded testing the buffer the wrong way round
AlreadyLoaded_NullTest(s, t) == ~s.datp /\ s.track.track_nr = t

\* line 119: the track is loaded already
AlreadyLoaded(s, t) == s.datp /\ s.track.track_nr = t

\* scp_select_track(sf, t).  callocNull: whether calloc(0, ..) returns NULL
\* (implementation-defined); `fatal` is err(1, NULL).
SelectTrack(s, d, t, callocNull) ==
  IF AlreadyLoaded(s, t)
  THEN [sf |-> s, ret |-> 0, io |-> 0, fatal |-> FALSE]
  ELSE LET s1 == [s EXCEPT !.datp = FALSE, !.dat = <<>>, !.datsz = 0]
           rec == DiskTrack(d, t)
           s2 == [s1 EXCEPT !.track = TrackHeader(rec, t, s.header.nr_revolutions)]
           total == SumSamples(s2.track.rev)
           s3 == [s2 EXCEPT !.datp = TRUE, !.dat = [i \in 1..(2 * total) |-> 0],
                            !.datsz = 0]
       IN IF ~rec.seek
          THEN [sf |-> s1, ret |-> -1, io |-> 1, fatal |-> FALSE]
          ELSE IF s2.track.sig # "TRK" \/ s2.track.track_nr # t
          THEN [sf |-> s2, ret |-> -1, io |-> 2, fatal |-> FALSE]
          ELSE IF total = 0 /\ callocNull
          THEN [sf |-> [s2 EXCEPT !.datsz = total], ret |-> -1, io |-> 2, fatal |-> TRUE]
          ELSE LoadRevs(s3, d, 0, 2)

\* scp_reset
ScpReset(s) == [s EXCEPT !.iter_ptr = 0, !.iter_limit = 0]


(***************************************************************************)
(* scp_next_flux, one iteration of its for (;;) loop: the restart of lines *)
(* 182-186 (when the cursor is exhausted), then the read of lines 188-195. *)
(***************************************************************************)
\* line 182
Exhausted(s) == s.iter_ptr >= s.iter_limit

\* lines 183-184: the cursor goes to the first sample of revolution r
NfRestart(s, r) ==
  [s EXCEPT !.iter_limit = s.index_ptr[r],
            !.iter_ptr = IF r # 0 THEN s.index_ptr[r - 1] ELSE 0]

\* samples the allocation of sf->dat holds
DatLen(s) == Len(s.dat) \div 2

\* the sample at index i of sf->dat, host order (be16toh of line 188)
Sample(s, i) == Be16toh(s.dat[2 * i + 1], s.dat[2 * i + 2])

\* values an out-of-bounds read of sf->dat may yield
OobVals == {0, 40}

\* what line 188 can read at index i: the sample there, or, outside the
\* allocation, any value or a fault (-1)
ReadOutcomes(s, i) == IF i < DatLen(s) THEN {Sample(s, i)} ELSE OobVals \cup {-1}

\* NfRead with `val = t` for `val += t`: the overflow count is dropped
NfRead_DropsOverflow(s, v, t) ==
  LET s1 == [s EXCEPT !.iter_ptr = s.iter_ptr + 1]
  IN IF t # 0
     THEN [sf |-> s1, done |-> TRUE, val |-> t]
     ELSE [sf |-> s1, done |-> FALSE, val |-> v + OVERFLOW_TICKS]

\* lines 188-195 with t the value read: the call returns (done) val + t, or
\* adds the overflow and goes round again
NfRead(s, v, t) ==
  LET s1 == [s EXCEPT !.iter_ptr = s.iter_ptr + 1]
  IN IF t # 0
     THEN [sf |-> s1, done |-> TRUE, val |-> v + t]
     ELSE [sf |-> s1, done |-> FALSE, val |-> v + OVERFLOW_TICKS]

(***************************************************************************)
(* The software PLL.                                                       *)
(***************************************************************************)
\* pll_init
PllInit(r) ==
  [rev |-> r, clock |-> CLOCK_CENTRE, flux |-> 0, time |-> 0, clocked_zeros |-> 0]

\* PllNeedsFlux accumulating up to a whole period
PllNeedsFlux_WholePeriod(p) == p.flux < p.clock

\* the condition of the while loop of line 312
PllNeedsFlux(p) == p.flux < p.clock \div 2

\* line 313, f the value scp_next_flux returned
PllAccumulate(p, f) == [p EXCEPT !.flux = p.flux + NS_PER_TICK * f]

\* PeriodAdjust without the out-of-sync branch
PeriodAdjust_AlwaysInSync(clock, flux, zeros) ==
  clock + CDiv(flux * PERIOD_ADJ_PCT, 100)

\* lines 326-333: the period correction
PeriodAdjust(clock, flux, zeros) ==
  IF zeros <= 3
  THEN clock + CDiv(flux * PERIOD_ADJ_PCT, 100)
  ELSE clock + CDiv((CLOCK_CENTRE - clock) * PERIOD_ADJ_PCT, 100)

\* Clamp without its lower limit (line 336 left out)
Clamp_NoLowerLimit(clock) ==
  IF clock > CLOCK_MAX(CLOCK_CENTRE) THEN CLOCK_MAX(CLOCK_CENTRE) ELSE clock

\* lines 336-339
Clamp(clock) ==
  LET c1 == IF clock < CLOCK_MIN(CLOCK_CENTRE) THEN CLOCK_MIN(CLOCK_CENTRE) ELSE clock
  IN IF c1 > CLOCK_MAX(CLOCK_CENTRE) THEN CLOCK_MAX(CLOCK_CENTRE) ELSE c1

\* PhaseAdjust keeping PHASE_ADJ_PCT of the mismatch instead of removing it
PhaseAdjust_KeepsPct(flux) == CDiv(flux * PHASE_ADJ_PCT, 100)

\* line 343
PhaseAdjust(flux) == CDiv(flux * (100 - PHASE_ADJ_PCT), 100)

\* IsZeroCell with a window of a whole period
IsZeroCell_WholePeriod(flux, clock) == flux >= clock

\* line 319: no flux transition in this cell
IsZeroCell(flux, clock) == flux >= clock \div 2

\* lines 316-348: the rest of pll_next_bit once flux >= clock/2
PllClock(p) ==
  LET flux1 == p.flux - p.clock
      time1 == p.time + p.clock
      new_flux == PhaseAdjust(flux1)
  IN IF IsZeroCell(flux1, p.clock)
     THEN [pll |-> [p EXCEPT !.time = SatTime(time1), !.flux = flux1,
                             !.clocked_zeros = p.clocked_zeros + 1],
           bit |-> 0]
     ELSE [pll |-> [p EXCEPT !.clock = Clamp(PeriodAdjust(p.clock, flux1, p.clocked_zeros)),
                             !.time = SatTime(time1 + (flux1 - new_flux)),
                             !.flux = new_flux,
                             !.clocked_zeros = 0],
           bit |-> 1]

(***************************************************************************)
(* The record of pll_next_bit calls: `cur` is the call in progress, `hist` *)
(* the calls completed on the current PLL (at most MaxPllCalls are kept).  *)
(***************************************************************************)
\* no pll_next_bit call is in progress
NoCall == [ptr |-> 0, limit |-> 0, nread |-> 0, on |-> FALSE]

\* pll_next_bit is entered with the cursor of s
CallAt(s) == [ptr |-> s.iter_ptr, limit |-> s.iter_limit, nread |-> 0, on |-> TRUE]

\* the call's scp_next_flux read one more sample (line 188)
CallRead(c) == [c EXCEPT !.nread = SatCount(c.nread + 1)]

\* a completed call: r what PllClock gave, s the reader it leaves, c the call
PllCallRecord(r, s, c) ==
  [bit |-> r.bit, clock |-> r.pll.clock, flux |-> r.pll.flux,
   zeros |-> r.pll.clocked_zeros, ptr |-> s.iter_ptr,
   ptr0 |-> c.ptr, limit0 |-> c.limit, nread |-> c.nread]

Logged(h, e) == IF Len(h) < MaxPllCalls THEN Append(h, e) ELSE h

(***************************************************************************)
(* The MFM sink (mfm.h), as the calls it receives since mfm_write_reset.   *)
(***************************************************************************)
NoWriter ==
  [halfbits |-> 0, bits |-> <<>>, bytes |-> 0, nonzero |-> FALSE, last |-> 0,
   reset |-> FALSE]

MfmWriteReset == [NoWriter EXCEPT !.reset = TRUE]

\* bits: the half-bits received, in order (the first CountCap of them)
MfmWriteHalfbit(w, b) ==
  [w EXCEPT !.halfbits = SatCount(w.halfbits + 1),
            !.bits = IF Len(w.bits) < CountCap THEN Append(w.bits, b) ELSE w.bits,
            !.last = b]

\* k calls of mfm_write_byte(w, b)
MfmWriteBytes(w, b, k) ==
  [w EXCEPT !.bytes = w.bytes + k, !.nonzero = w.nonzero \/ (k > 0 /\ b # 0),
            !.last = b % 2]


(***************************************************************************)
(* Inputs: headers scp_open accepts, and files.                            *)
(***************************************************************************)
RECURSIVE SeqsUpTo(_, _)
SeqsUpTo(S, k) ==
  IF k = 0 THEN {<<>>}
  ELSE LET shorter == SeqsUpTo(S, k - 1)
       IN shorter \cup {Append(q, x) : q \in {q1 \in shorter : Len(q1) = k - 1}, x \in S}

\* a revolution of the file: its descriptor's sample count, whether the
\* seek to its sample array succeeds, and the bytes there before end of file
RevOf(ss, cut) ==
  [nr_samples |-> Len(ss), seek |-> TRUE,
   bytes |-> SubSeq(Flatten(ss), 1, 2 * Len(ss) - cut)]

\* revolutions with samples from S, whole or with the file ending 1 byte,
\* or the whole array, early
RevsOver(S) ==
  UNION {{RevOf(ss, cut) : cut \in {0, 2 * Len(ss)} \cup (IF ss = <<>> THEN {} ELSE {1})}
         : ss \in SeqsUpTo(S, MaxSamples)}

PlainRev == RevOf(<<80>>, 0)

GoodTrack(t, revs) == [seek |-> TRUE, sig |-> "TRK", track_nr |-> t, rev |-> revs]

PlainTrack(t, R) == GoodTrack(t, [r \in 1..R |-> PlainRev])

\* tracks of R revolutions: revolution v (0-based) is any of Rs, its
\* successor is plain or (when v itself is plain) any of Rs, the rest plain
TracksVarying(t, R, v, Rs) ==
  {GoodTrack(t, [r \in 1..R |-> IF r = v + 1 THEN x ELSE PlainRev]) : x \in Rs}
  \cup {GoodTrack(t, [r \in 1..R |-> IF r = v + 1 THEN RevOf(<<>>, 0)
                                      ELSE IF r = v + 2 THEN x ELSE PlainRev]) : x \in Rs}

\* tracks scp_select_track rejects, one per failure point
BadTracks(t, R) ==
  {[PlainTrack(t, R) EXCEPT !.seek = FALSE],
   [PlainTrack(t, R) EXCEPT !.sig = "XXX"],
   [PlainTrack(t, R) EXCEPT !.track_nr = t + 1]}
  \cup {[PlainTrack(t, R) EXCEPT !.rev[r].seek = FALSE] : r \in 1..R}

\* the disk header, the fields scp.c reads
Header(sig, R, cw, st, en) ==
  [sig |-> sig, nr_revolutions |-> R, cell_width |-> cw,
   start_track |-> st, end_track |-> en]

\* line 74: memset(sf, 0, sizeof(*sf))
ZeroedFile ==
  [header |-> Header("", 0, 0, 0, 0),
   track |-> [sig |-> "", track_nr |-> 0, rev |-> <<>>],
   datp |-> FALSE, dat |-> <<>>, datsz |-> 0,
   index_ptr |-> [r \in 0..(REV_MAX - 1) |-> 0],
   iter_ptr |-> 0, iter_limit |-> 0]

\* HeaderRejected refusing the largest revolution count
HeaderRejected_RevOffByOne(h) ==
  \/ h.sig # "SCP"
  \/ h.nr_revolutions = 0 \/ h.nr_revolutions >= REV_MAX
  \/ h.cell_width # 0 /\ h.cell_width # 16

\* lines 81-88: the headers scp_open ends the program on
HeaderRejected(h) ==
  \/ h.sig # "SCP"
  \/ h.nr_revolutions = 0 \/ h.nr_revolutions > REV_MAX
  \/ h.cell_width # 0 /\ h.cell_width # 16

\* scp_open(sf, name): `exists` whether open() succeeds, h the header the
\* file holds; `fatal` is err/errx
ScpOpen(exists, h) ==
  IF ~exists
  THEN [sf |-> ZeroedFile, fatal |-> TRUE]
  ELSE [sf |-> [ZeroedFile EXCEPT !.header = h], fatal |-> HeaderRejected(h)]

\* the session of a file scp_open accepted
OpenedFile(R, st, en) == ScpOpen(TRUE, Header("SCP", R, 16, st, en)).sf

NoPll == [rev |-> 0, clock |-> 0, flux |-> 0, time |-> 0, clocked_zeros |-> 0]

(***************************************************************************)
(* scp_write_mfm.                                                          *)
(***************************************************************************)
MfmSamples == {20, 40, 89, 1024}

TrackRanges == {<<0, 1>>, <<0, 3>>, <<1, 3>>, <<1, 1>>, <<0, 200>>}

InitCommon ==
  /\ pll = NoPll
  /\ val = 0
  /\ ret = 0
  /\ io = 0
  /\ tn = 0
  /\ n = 0
  /\ writer = NoWriter
  /\ selRet = <<>>
  /\ reads = {}
  /\ calls = 0
  /\ cur = NoCall
  /\ hist = <<>>

InitMfm ==
  /\ InitCommon
  /\ op = <<"open">>
  /\ pc = "start"
  /\ ctx = "first"
  /\ \E R \in 1..MaxRevs :
       \/ \E v \in 0..(R - 1) :
            /\ rev = v
            /\ sf = OpenedFile(R, 0, 2)
            /\ \E t0 \in TracksVarying(0, R, v, RevsOver(MfmSamples)) :
                 disk = (0 :> t0) @@ (1 :> PlainTrack(1, R))
       \/ /\ rev \in 0..MaxRevs
          /\ \E rg \in TrackRanges : sf = OpenedFile(R, rg[1], rg[2])
          /\ \E t0 \in BadTracks(0, R) \cup {PlainTrack(0, R)} :
               disk = (0 :> t0) @@ (1 :> PlainTrack(1, R))

\* lines 372-374: the track is decoded unless it is out of range or its
\* selection fails; scp_select_track is called only for a track in range
InRange(s, t) == ~(t < s.header.start_track \/ t >= s.header.end_track)

\* RevOutOfRange with > for >=
RevOutOfRange_OffByOne(r, s) == r > s.header.nr_revolutions

\* line 362
RevOutOfRange(r, s) == r >= s.header.nr_revolutions

\* lines 358-365: the revolution check, before the track loop
WmStart ==
  /\ pc = "start"
  /\ pc' = IF RevOutOfRange(rev, sf) THEN "fatal" ELSE "track"
  /\ tn' = 0
  /\ UNCHANGED <<disk, sf, pll, val, ret, io, rev, n, writer, ctx, op, selRet, reads, calls, cur, hist>>

\* the filler loop running one byte short
FillerTrack_OneShort(w) == MfmWriteBytes(w, 0, FILLER_BYTES - 1)

\* the loop of lines 377-378
FillerTrack(w) == MfmWriteBytes(w, 0, FILLER_BYTES)

\* lines 366-378: a track out of range: an empty track
WmSkipTrack ==
  /\ pc = "track"
  /\ tn < NR_TRACKS
  /\ ~InRange(sf, tn)
  /\ writer' = FillerTrack(MfmWriteReset)
  /\ n' = SatCount(FILLER_BYTES)
  /\ tn' = tn + 1
  /\ UNCHANGED <<disk, sf, pll, pc, val, ret, io, rev, ctx, op, selRet, reads, calls, cur, hist>>

\* lines 366-391: a track in range: scp_select_track, then the empty track
\* or the start of the decode (scp_reset, pll_init, the first pll_next_bit)
WmSelectTrack ==
  /\ pc = "track"
  /\ tn < NR_TRACKS
  /\ InRange(sf, tn)
  /\ \E callocNull \in BOOLEAN :
       LET res == SelectTrack(sf, disk, tn, callocNull)
           p == PllInit(rev)
       IN /\ io' = io + res.io
          /\ selRet' = <<res.ret>>
          /\ IF res.fatal
             THEN /\ sf' = res.sf
                  /\ pc' = "fatal"
                  /\ writer' = MfmWriteReset
                  /\ UNCHANGED <<pll, tn, n, ctx, cur, hist>>
             ELSE IF res.ret < 0
             THEN /\ sf' = res.sf
                  /\ writer' = FillerTrack(MfmWriteReset)
                  /\ n' = SatCount(FILLER_BYTES)
                  /\ tn' = tn + 1
                  /\ UNCHANGED <<pll, pc, ctx, cur, hist>>
             ELSE /\ sf' = ScpReset(res.sf)
                  /\ writer' = MfmWriteReset
                  /\ pll' = p
                  /\ ctx' = "first"
                  /\ pc' = "while"
                  /\ cur' = CallAt(ScpReset(res.sf))
                  /\ hist' = <<>>
                  /\ UNCHANGED <<tn, n>>
  /\ reads' = {}
  /\ val' = 0
  /\ UNCHANGED <<disk, ret, rev, op, calls>>


\* line 312: the while test of pll_next_bit finds flux < clock/2 and
\* calls scp_next_flux
WmWhile ==
  /\ pc = "while"
  /\ PllNeedsFlux(pll)
  /\ pc' = "flux"
  /\ val' = 0
  /\ UNCHANGED <<disk, sf, pll, ret, io, rev, tn, n, writer, ctx, op, selRet, reads, calls, cur, hist>>

\* lines 182-186 of the scp_next_flux call of line 313, cursor exhausted
WmRestart ==
  /\ pc = "flux"
  /\ Exhausted(sf)
  /\ sf' = NfRestart(sf, pll.rev)
  /\ val' = 0
  /\ pc' = "read"
  /\ UNCHANGED <<disk, pll, ret, io, rev, tn, n, writer, ctx, op, selRet, reads, calls, cur, hist>>

\* the scp_next_flux call is at line 188
AtRead == pc = "read" \/ (pc = "flux" /\ ~Exhausted(sf))

\* lines 188-195 of the scp_next_flux call of line 313; when it returns,
\* the addition of line 313
WmRead ==
  /\ AtRead
  /\ \E t \in ReadOutcomes(sf, sf.iter_ptr) :
       LET r == NfRead(sf, val, t)
           p == PllAccumulate(pll, r.val)
       IN IF t < 0
          THEN /\ pc' = "fault"
               /\ UNCHANGED <<sf, pll, val, ret, reads, cur>>
          ELSE /\ sf' = r.sf
               /\ reads' = reads \cup {<<pll.rev, sf.iter_ptr>>}
               /\ cur' = CallRead(cur)
               /\ IF r.done
                  THEN /\ ret' = r.val
                       /\ pll' = p
                       /\ val' = 0
                       /\ pc' = "while"
                  ELSE /\ val' = r.val
                       /\ pc' = "flux"
                       /\ UNCHANGED <<pll, ret>>
  /\ UNCHANGED <<disk, io, rev, tn, n, writer, ctx, op, selRet, calls, hist>>

\* line 391: the decode loop goes on while samples remain
MoreSamples(s) == s.iter_ptr < s.iter_limit

\* the while test of line 312 fails: lines 316-348 of pll_next_bit, then
\* its caller: line 385 drops the half-bit, lines 388-391 forward it, test
\* the cursor and call pll_next_bit again
WmClock ==
  /\ pc = "while"
  /\ ~PllNeedsFlux(pll)
  /\ LET r == PllClock(pll)
     IN /\ pll' = r.pll
        /\ ret' = r.bit
        /\ hist' = Logged(hist, PllCallRecord(r, sf, cur))
        /\ IF ctx = "first"
           THEN /\ n' = 0
                /\ ctx' = "loop"
                /\ cur' = CallAt(sf)
                /\ UNCHANGED <<writer, pc>>
           ELSE /\ writer' = MfmWriteHalfbit(writer, r.bit)
                /\ n' = SatCount(n + 1)
                /\ pc' = IF MoreSamples(sf) THEN "while" ELSE "pad"
                /\ cur' = IF MoreSamples(sf) THEN CallAt(sf) ELSE NoCall
                /\ UNCHANGED ctx
  /\ UNCHANGED <<disk, sf, val, io, rev, tn, op, selRet, reads, calls>>

\* the test `n++ < 12800*8` of lines 394 and 396
PadMore(k) == k < TrackCells

\* lines 394-398: one iteration of the padding loop, or its exit
WmPad ==
  /\ pc = "pad"
  /\ IF PadMore(n)
     THEN LET w1 == MfmWriteHalfbit(writer, 1 - writer.last)
              w2 == IF PadMore(n + 1) THEN MfmWriteHalfbit(w1, 1 - w1.last) ELSE w1
          IN /\ writer' = w2
             /\ n' = SatCount(n + 2)
             /\ UNCHANGED <<pc, tn>>
     ELSE /\ n' = SatCount(n + 1)
          /\ tn' = tn + 1
          /\ pc' = "track"
          /\ UNCHANGED writer
  /\ UNCHANGED <<disk, sf, pll, val, ret, io, rev, ctx, op, selRet, reads, calls, cur, hist>>

\* scp_close
ScpClose(s) == [s EXCEPT !.datp = FALSE, !.dat = <<>>]

\* line 401, after the last track
WmClose ==
  /\ pc = "track"
  /\ tn >= NR_TRACKS
  /\ sf' = ScpClose(sf)
  /\ pc' = "done"
  /\ UNCHANGED <<disk, pll, val, ret, io, rev, tn, n, writer, ctx, op, selRet, reads, calls, cur, hist>>

NextMfm == WmStart \/ WmSkipTrack \/ WmSelectTrack \/ WmWhile \/ WmRestart \/ WmRead \/ WmClock \/ WmPad \/ WmClose

SpecMfm == InitMfm /\ [][NextMfm]_vars

\* A sequential program takes its next step.  While a track is decoded the
\* steps of the decode loop are the only ones enabled, so fairness is stated
\* for them.
DecodeStep == WmWhile \/ WmRestart \/ WmRead \/ WmClock

FairMfm == SpecMfm /\ WF_vars(DecodeStep)


(***************************************************************************)
(* The PLL on its own: a track is selected, scp_reset and pll_init run as  *)
(* in lines 383-384, then pll_next_bit is called again and again, whatever *)
(* the cursor (the revolution repeats through the restart of scp_next_flux).*)
(***************************************************************************)
PllSamples == {0, 20, 40, 89, 1024}

InitPll ==
  /\ InitCommon
  /\ op = <<"open">>
  /\ pc = "start"
  /\ ctx = "unit"
  /\ rev = 0
  /\ sf = OpenedFile(1, 0, 1)
  /\ \E ss \in SeqsUpTo(PllSamples, MaxSamples) \ {<<>>} :
       disk = (0 :> GoodTrack(0, <<RevOf(ss, 0)>>))

\* scp_select_track, scp_reset, pll_init (lines 374, 383, 384)
PuStart ==
  /\ pc = "start"
  /\ LET res == SelectTrack(sf, disk, 0, FALSE)
     IN /\ sf' = ScpReset(res.sf)
        /\ io' = io + res.io
        /\ selRet' = <<res.ret>>
        /\ pc' = IF res.ret < 0 THEN "idle" ELSE "bit"
  /\ pll' = PllInit(rev)
  /\ hist' = <<>>
  /\ UNCHANGED <<disk, val, ret, rev, tn, n, writer, ctx, op, reads, calls, cur>>

\* pll_next_bit is called
PuCall ==
  /\ pc = "bit"
  /\ calls < MaxPllCalls
  /\ calls' = calls + 1
  /\ cur' = CallAt(sf)
  /\ pc' = "while"
  /\ UNCHANGED <<disk, sf, pll, val, ret, io, rev, tn, n, writer, ctx, op, selRet, reads, hist>>

\* the while test of line 312 fails: lines 316-348, and the call returns
PuClock ==
  /\ pc = "while"
  /\ ~PllNeedsFlux(pll)
  /\ LET r == PllClock(pll)
     IN /\ pll' = r.pll
        /\ ret' = r.bit
        /\ hist' = Logged(hist, PllCallRecord(r, sf, cur))
  /\ cur' = NoCall
  /\ pc' = "bit"
  /\ UNCHANGED <<disk, sf, val, io, rev, tn, n, writer, ctx, op, selRet, reads, calls>>

NextPll == PuStart \/ PuCall \/ WmWhile \/ WmRestart \/ WmRead \/ PuClock

SpecPll == InitPll /\ [][NextPll]_vars


(***************************************************************************)
(* A client of the reader: scp_select_track on any track, then scp_reset,  *)
(* then scp_next_flux on any revolution, in any order, as scp_print_track  *)
(* uses them.                                                              *)
(***************************************************************************)
ApiSamples == {0, 40, 300}

\* track numbers a client selects
ApiTracks == 0..1

Init ==
  /\ InitCommon
  /\ op = <<"open">>
  /\ pc = "idle"
  /\ ctx = "client"
  /\ rev = 0
  /\ \E R \in 1..MaxRevs :
       /\ sf = OpenedFile(R, 0, 2)
       /\ \E t0 \in BadTracks(0, R)
                    \cup UNION {TracksVarying(0, R, v, RevsOver(ApiSamples)) : v \in 0..(R - 1)} :
            disk = (0 :> t0) @@ (1 :> PlainTrack(1, R))

ClientTurn == pc \in {"idle", "selected", "ready"} /\ calls < MaxCalls

\* scp_select_track(sf, t)
ApiSelect(t) ==
  /\ ClientTurn
  /\ \E callocNull \in BOOLEAN :
       LET res == SelectTrack(sf, disk, t, callocNull)
       IN /\ sf' = res.sf
          /\ io' = io + res.io
          /\ ret' = res.ret
          /\ selRet' = <<res.ret>>
          /\ pc' = IF res.fatal THEN "fatal"
                   ELSE IF res.ret < 0 THEN "idle"
                   ELSE IF res.io = 0 /\ pc = "ready" THEN "ready"
                   ELSE "selected"
          /\ reads' = IF res.io = 0 THEN reads ELSE {}
  /\ op' = <<"select", t>>
  /\ calls' = calls + 1
  /\ UNCHANGED <<disk, pll, val, rev, tn, n, writer, ctx, cur, hist>>

\* scp_reset(sf), on a selected track
ApiReset ==
  /\ ClientTurn
  /\ pc \in {"selected", "ready"}
  /\ sf' = ScpReset(sf)
  /\ reads' = {}
  /\ pc' = "ready"
  /\ op' = <<"reset">>
  /\ calls' = calls + 1
  /\ UNCHANGED <<disk, pll, val, ret, io, rev, tn, n, writer, ctx, selRet, cur, hist>>

\* scp_next_flux(sf, r) is called
ApiNextFlux(r) ==
  /\ ClientTurn
  /\ pc = "ready"
  /\ rev' = r
  /\ ctx' = "client"
  /\ val' = 0
  /\ pc' = "flux"
  /\ op' = <<"next_flux", r, sf.iter_ptr, sf.iter_limit>>
  /\ calls' = calls + 1
  /\ UNCHANGED <<disk, sf, pll, ret, io, tn, n, writer, selRet, reads, cur, hist>>

\* lines 182-186, cursor exhausted
ApiRestart ==
  /\ pc = "flux"
  /\ Exhausted(sf)
  /\ sf' = NfRestart(sf, rev)
  /\ val' = 0
  /\ pc' = "read"
  /\ UNCHANGED <<disk, pll, ret, io, rev, tn, n, writer, ctx, op, selRet, reads, calls, cur, hist>>

\* lines 188-195; a returning call goes back to the client
ApiRead ==
  /\ AtRead
  /\ \E t \in ReadOutcomes(sf, sf.iter_ptr) :
       LET r == NfRead(sf, val, t)
       IN IF t < 0
          THEN /\ pc' = "fault"
               /\ UNCHANGED <<sf, val, ret, reads>>
          ELSE /\ sf' = r.sf
               /\ reads' = reads \cup {<<rev, sf.iter_ptr>>}
               /\ IF r.done
                  THEN /\ ret' = r.val
                       /\ val' = 0
                       /\ pc' = "ready"
                  ELSE /\ val' = r.val
                       /\ pc' = "flux"
                       /\ UNCHANGED ret
  /\ UNCHANGED <<disk, pll, io, rev, tn, n, writer, ctx, op, selRet, calls, cur, hist>>

Next ==
  \/ \E t \in ApiTracks : ApiSelect(t)
  \/ ApiReset
  \/ \E r \in 0..(sf.header.nr_revolutions - 1) : ApiNextFlux(r)
  \/ ApiRestart
  \/ ApiRead

Spec == Init /\ [][Next]_vars

(***************************************************************************)
(* The same client, from scp_open on: the file may be missing or hold any  *)
(* header; its track records describe REV_MAX revolutions.                 *)
(***************************************************************************)
FileHeaders ==
  {Header(sig, R, cw, 0, 2) : sig \in {"SCP", "SCQ"}, R \in {0, 1, REV_MAX, REV_MAX + 1},
                              cw \in {0, 8, 16}}

InitOpen ==
  /\ InitCommon
  /\ op = <<>>
  /\ pc = "closed"
  /\ ctx = "client"
  /\ rev = 0
  /\ sf = ZeroedFile
  /\ disk = (0 :> PlainTrack(0, REV_MAX)) @@ (1 :> PlainTrack(1, REV_MAX))

\* scp_open(sf, name)
ApiOpen ==
  /\ pc = "closed"
  /\ \E exists \in BOOLEAN, h \in FileHeaders :
       LET res == ScpOpen(exists, h)
       IN /\ sf' = res.sf
          /\ pc' = IF res.fatal THEN "fatal" ELSE "idle"
  /\ op' = <<"open">>
  /\ UNCHANGED <<disk, pll, val, ret, io, rev, tn, n, writer, ctx, selRet, reads, calls, cur, hist>>

NextOpen == ApiOpen \/ Next

SpecOpen == InitOpen /\ [][NextOpen]_vars

(***************************************************************************)
(* Claims about scp_write_mfm (SpecMfm, FairMfm).                          *)
(***************************************************************************)
\* revolution r of the loaded track: samples index_ptr[r-1] .. index_ptr[r]-1
RevLo(s, r) == IF r = 0 THEN 0 ELSE s.index_ptr[r - 1]
RevHi(s, r) == s.index_ptr[r]
RevLen(s, r) == RevHi(s, r) - RevLo(s, r)
RevHasNonZero(s, r) == \E i \in RevLo(s, r)..(RevHi(s, r) - 1) : Sample(s, i) # 0

\* inside the decode of lines 383-391
Decoding == pc \in {"while", "flux", "read"}

\* track tn - 1 has just been completed
TrackDone == pc = "track" /\ tn > 0
\* ... and it was in range and selected
TrackDecoded ==
  /\ TrackDone
  /\ tn - 1 >= sf.header.start_track
  /\ tn - 1 < sf.header.end_track
  /\ selRet = <<0>>

\* C1: on a selected track whose chosen revolution holds a non-zero sample,
\* the decode loop of scp_write_mfm ends: a pll_next_bit call returns with
\* the cursor exhausted and the loop of lines 387-391 is left.
C1_DecodeLoopEnds == (Decoding /\ RevHasNonZero(sf, rev)) ~> ~Decoding

\* C2: a track that was in range and selected has received exactly the
\* track capacity in half-bit cells when it is completed.
C2_ExactTrackCells == TrackDecoded => writer.halfbits = TrackCells

\* C4: a completed track that was out of range, or whose selection failed,
\* received exactly 6400 bytes, all 0, and no half-bit, and the loop is at
\* the next track.
C4_FillerTrack ==
  (TrackDone /\ (\/ tn - 1 < sf.header.start_track
                 \/ tn - 1 >= sf.header.end_track
                 \/ selRet = <<-1>>))
    => (writer.bytes = 6400 /\ ~writer.nonzero /\ writer.halfbits = 0)

\* C4 witness: a track in range was rejected by scp_select_track and filled.
C4_Witness ==
  /\ TrackDone
  /\ tn - 1 >= sf.header.start_track
  /\ tn - 1 < sf.header.end_track
  /\ selRet = <<-1>>
  /\ writer.bytes = 6400
  /\ tn < NR_TRACKS

\* C5: the PLL is never run on an empty chosen revolution; such a track is
\* completed as a filler track.
C5_EmptyRevolutionIsFiller ==
  /\ (pc \in {"while", "flux", "read", "pad"} => RevLen(sf, rev) > 0)
  /\ (TrackDecoded /\ RevLen(sf, rev) = 0
        => (writer.bytes = 6400 /\ ~writer.nonzero /\ writer.halfbits = 0))

\* C9: a scp_next_flux call on a non-empty revolution, zero-filled by a
\* short read or not, returns.
C9_NextFluxReturns == (pc \in {"flux", "read"} /\ RevLen(sf, rev) > 0) ~> (pc = "while")

\* C10: with a revolution number >= the header's count the call ends fatally
\* at line 363: the sink was never reset or written, no track selected.
C10_RevisionRangeFatal ==
  rev >= sf.header.nr_revolutions
    => /\ pc \in {"start", "fatal"}
       /\ writer = NoWriter
       /\ selRet = <<>>
       /\ io = 0

\* C10 witness: the fatal exit was taken for a revolution out of range.
C10_Witness == rev >= sf.header.nr_revolutions /\ pc = "fatal"


(***************************************************************************)
(* Claims about the PLL and the reader.                                    *)
(***************************************************************************)
\* C3: once pll_init has run, the clock period is within [1800, 2200]
\* after any number of pll_next_bit calls.
C3_ClockInBand == pll # NoPll => (pll.clock >= 1800 /\ pll.clock <= 2200)

\* C3 witness: pll_next_bit calls have driven the clock to the lower limit.
C3_Witness == ctx = "loop" /\ pc = "while" /\ pll.clock = 1800

\* C6: between scp_reset and now, if every scp_next_flux call was given the
\* same revolution, every sample read lies inside that revolution.
C6_ReadsInsideRevolution ==
  \A x \in reads :
    (\A y \in reads : y[1] = x[1])
      => (x[2] >= RevLo(sf, x[1]) /\ x[2] < RevHi(sf, x[1]))

\* the scp_next_flux call that has just returned to the client
NfReturned == pc = "ready" /\ op[1] = "next_flux"
\* the samples that call found at its cursor: from NfFrom up to NfTo - 1
NfFrom == IF op[3] >= op[4] THEN RevLo(sf, op[2]) ELSE op[3]
NfTo == IF op[3] >= op[4] THEN RevHi(sf, op[2]) ELSE op[4]
\* ... are a run of k zero samples and a non-zero one, inside the revolution
NfRun(k) ==
  /\ NfFrom + k < NfTo
  /\ \A i \in NfFrom..(NfFrom + k - 1) : Sample(sf, i) = 0
  /\ Sample(sf, NfFrom + k) # 0

\* C7 as stated: a run of k zeros and a sample v returns k * 0x10000 + 25 * v.
C7_ReturnsScaledSample ==
  NfReturned =>
    \A k \in 0..MaxSamples :
      NfRun(k) => /\ ret = k * 65536 + 25 * Sample(sf, NfFrom + k)
                  /\ sf.iter_ptr = NfFrom + k + 1

\* C7 amended: a run of k zeros and a sample v returns k * 0x10000 + v, in
\* raw ticks, and leaves the cursor just after v.
C7_ReturnsRawTicks ==
  NfReturned =>
    \A k \in 0..MaxSamples :
      NfRun(k) => /\ ret = k * 65536 + Sample(sf, NfFrom + k)
                  /\ sf.iter_ptr = NfFrom + k + 1

\* C7 witness: a call returned after an overflow marker and a sample.
C7_Witness == NfReturned /\ NfRun(1) /\ ret > 65536

\* C8: a scp_select_track(t) call right after a successful
\* scp_select_track(t) returns 0, leaves sf (dat, datsz, index_ptr, track)
\* as it is and makes no lseek or read call.
C8_ReselectIsNoOp ==
  [][\A t \in ApiTracks :
       (op = <<"select", t>> /\ selRet = <<0>> /\ op' = <<"select", t>> /\ calls' # calls)
         => (sf' = sf /\ io' = io /\ selRet' = <<0>> /\ ret' = 0)]_vars

\* C8 witness: two calls were made, the second a successful
\* scp_select_track(0), and the file was read for one load only.
C8_Witness ==
  /\ calls = 2
  /\ op = <<"select", 0>>
  /\ selRet = <<0>>
  /\ io = 2 + 2 * sf.header.nr_revolutions


(***************************************************************************)
(* Claims about pll_next_bit on its own (SpecPll).                         *)
(***************************************************************************)
\* the loaded revolution is the single sample 40
SingleSample40 == pc # "start" /\ sf.datp /\ DatLen(sf) = 1 /\ Sample(sf, 0) = 40

\* the PLL (time apart, which nothing reads) and the cursor after call i
StateAfter(h, i) == <<h[i].clock, h[i].flux, h[i].zeros, h[i].ptr>>

\* C12: on the single sample 40, among the first 50 pll_next_bit calls two
\* calls s < t leave the PLL and the cursor in the same state, so the bits
\* returned from call s + 1 on repeat with period t - s; the bits of the
\* first 50 calls show that period.
C12_PeriodicWithin50 ==
  (SingleSample40 /\ Len(hist) = 50) =>
    \E s \in 1..49 : \E t \in (s + 1)..50 :
      /\ StateAfter(hist, s) = StateAfter(hist, t)
      /\ \A i \in (s + 1)..(50 - (t - s)) : hist[i].bit = hist[i + (t - s)].bit

\* C12 witness: 50 calls were made on the single sample 40.
C12_Witness == SingleSample40 /\ Len(hist) = 50 /\ calls = 50


(***************************************************************************)
(* Claims about scp_open (SpecOpen).                                       *)
(***************************************************************************)
\* the headers the format description allows
HeaderValid(h) ==
  h.sig = "SCP" /\ h.nr_revolutions \in 1..5 /\ h.cell_width \in {0, 16}

\* C11: scp_open leaves a usable session exactly for a header with
\* signature "SCP", 1..5 revolutions and cell width 0 or 16; on any other
\* header the program has ended in scp_open: no call was ever made on the
\* session, no track selected and no buffer allocated.
C11_OpenValidates ==
  /\ op = <<"open">> => (pc = "idle" <=> HeaderValid(sf.header))
  /\ (pc # "closed" /\ ~HeaderValid(sf.header))
       => (pc = "fatal" /\ op = <<"open">> /\ calls = 0 /\ selRet = <<>> /\ ~sf.datp)

\* C11 witness: a header with 5 revolutions was accepted and a track of the
\* session selected.
C11_Witness ==
  /\ sf.header.nr_revolutions = 5
  /\ sf.header.cell_width = 0
  /\ selRet = <<0>>
  /\ sf.datsz = 5

\* C11 witness of the other side: a header with 6 revolutions ended the program.
C11_Rejected == op = <<"open">> /\ pc = "fatal" /\ sf.header.nr_revolutions = 6


(***************************************************************************)
(* Claims about the decode loop's use of the PLL (SpecMfm).                *)
(***************************************************************************)
\* the pll_next_bit call in progress is one whose half-bit is forwarded
ForwardedPull == cur.on /\ ctx = "loop" /\ Decoding

\* the half-bits forwarded so far are the PLL's outputs from the second on
ForwardedInOrder ==
  Decoding =>
    /\ ctx = "first" => (writer.bits = <<>> /\ hist = <<>>)
    /\ ctx = "loop" =>
         /\ Len(hist) >= 1
         /\ Len(writer.bits) = (IF Len(hist) - 1 < CountCap THEN Len(hist) - 1 ELSE CountCap)
         /\ \A i \in 1..Len(writer.bits) : writer.bits[i] = hist[i + 1].bit

\* C13: after the discarded half-bit, every pll_next_bit call whose half-bit
\* is forwarded was entered with cursor.ptr < cursor.limit, and the sink
\* has received the PLL's outputs from the second on, in order.
C13_PullOnlyWhileSamples ==
  /\ ForwardedPull => cur.ptr < cur.limit
  /\ ForwardedInOrder


(***************************************************************************)
(* Claims about one pll_next_bit call (SpecPll).  PllReturns is the step   *)
(* that runs lines 316-348: before it pll.flux is the accumulated flux.    *)
(***************************************************************************)
PllReturns == pc = "while" /\ pc' = "bit"

\* C14: the call returns 0 exactly when the accumulated flux less one clock
\* period is >= clock/2; then clock is unchanged, flux is the accumulated
\* flux less clock, time has grown by clock and clocked_zeros by 1.
C14_ZeroCell ==
  [][PllReturns =>
       /\ (ret' = 0) <=> (pll.flux - pll.clock >= pll.clock \div 2)
       /\ ret' \in {0, 1}
       /\ ret' = 0 =>
            /\ pll'.clock = pll.clock
            /\ pll'.flux = pll.flux - pll.clock
            /\ pll'.time = pll.time + pll.clock
            /\ pll'.clocked_zeros = pll.clocked_zeros + 1]_vars

\* C14 witness: a second zero cell in a row was returned.
C14_Witness ==
  pc = "bit" /\ hist # <<>> /\ ret = 0 /\ pll.clocked_zeros = 2 /\ pll.clock # CLOCK_CENTRE

\* C15: a one cell after at most 3 zeros moves the clock by flux*5/100 and
\* clamps it to [1800, 2200]; after 4 or more zeros it moves the clock by
\* (2000 - clock)*5/100 whatever the flux, never away from 2000 nor across
\* it; either way clocked_zeros is 0 afterwards and 1 is returned.
C15_PeriodCorrection ==
  [][(PllReturns /\ pll.flux - pll.clock < pll.clock \div 2) =>
       LET f == pll.flux - pll.clock
           c == pll.clock + CDiv(f * 5, 100)
           d == CDiv((2000 - pll.clock) * 5, 100)
       IN /\ ret' = 1
          /\ pll'.clocked_zeros = 0
          /\ pll.clocked_zeros <= 3 =>
               pll'.clock = (IF c < 1800 THEN 1800 ELSE IF c > 2200 THEN 2200 ELSE c)
          /\ pll.clocked_zeros >= 4 =>
               /\ pll'.clock = pll.clock + d
               /\ pll.clock >= 2000 => (pll'.clock >= 2000 /\ pll'.clock <= pll.clock)
               /\ pll.clock <= 2000 => (pll'.clock <= 2000 /\ pll'.clock >= pll.clock)]_vars

\* C15 witness: a one cell after 4 or more zeros moved the clock.
C15_Witness ==
  /\ pc = "bit"
  /\ Len(hist) >= 2
  /\ hist[Len(hist)].bit = 1
  /\ hist[Len(hist) - 1].zeros >= 4
  /\ hist[Len(hist)].clock # hist[Len(hist) - 1].clock

\* C16: for a one cell with negative residue -f, the new flux is
\* -((f*40) div 100), the in-sync clock change is -((f*5) div 100) (when the
\* result needs no clamping), and time has grown by clock and by
\* flux - new_flux.
C16_TruncatesTowardZero ==
  [][(PllReturns /\ ret' = 1 /\ pll.flux - pll.clock < 0) =>
       LET f == -(pll.flux - pll.clock)
           c == pll.clock - ((f * 5) \div 100)
       IN /\ pll'.flux = -((f * 40) \div 100)
          /\ (pll.clocked_zeros <= 3 /\ c >= 1800 /\ c <= 2200) => pll'.clock = c
          /\ pll'.time = pll.time + pll.clock + ((-f) - pll'.flux)]_vars

\* C16 witness: a one cell left a negative flux and a clock inside the band.
C16_Witness ==
  /\ pc = "bit"
  /\ hist # <<>>
  /\ ret = 1
  /\ pll.flux < 0
  /\ pll.clock > 1800 /\ pll.clock < 2000

\* C19: a call reads samples only if it is the first on the PLL or follows
\* a call that returned 1; the call after a 0 reads none; a call that
\* returned 1 leaves |flux| <= 440 < clock/2, and the first call and every
\* call after a 1 read at least one sample.
C19_ReadsOnlyAfterOne ==
  \A i \in 1..Len(hist) :
    /\ hist[i].nread > 0 => (i = 1 \/ hist[i - 1].bit = 1)
    /\ (i > 1 /\ hist[i - 1].bit = 0) => hist[i].nread = 0
    /\ hist[i].bit = 1 =>
         (hist[i].flux <= 440 /\ hist[i].flux >= -440 /\ 440 < hist[i].clock \div 2)
    /\ (i = 1 \/ hist[i - 1].bit = 1) => hist[i].nread >= 1

\* C19 witness: a call after a 0 read nothing, a call after a 1 read a sample.
C19_Witness ==
  \E i \in 2..(Len(hist) - 1) :
    /\ hist[i - 1].bit = 0 /\ hist[i].nread = 0 /\ hist[i].bit = 1
    /\ hist[i + 1].nread >= 1

\* C20: after a call that returned 0 leaving flux F, the calls up to and
\* with the next 1 read no sample, and at most F div 1800 of them return 0:
\* the 1 comes within F div 1800 + 1 calls.
C20_ZeroRunBounded ==
  \A i \in 1..Len(hist) : \A j \in (i + 1)..Len(hist) :
    (\A m \in i..(j - 1) : hist[m].bit = 0) =>
      /\ hist[j].nread = 0
      /\ hist[j].bit = 0 => j - i <= hist[i].flux \div 1800

\* C20 witness: a run of zeros was closed by a 1 at the last call the bound
\* allows.
C20_Witness ==
  \E i \in 1..Len(hist) : \E j \in (i + 1)..Len(hist) :
    /\ \A m \in i..(j - 1) : hist[m].bit = 0
    /\ hist[j].bit = 1
    /\ j - i = hist[i].flux \div 1800 + 1
    /\ j - i >= 3


(***************************************************************************)
(* Claims about the track loader (Spec).                                   *)
(***************************************************************************)
\* C17: when the last scp_select_track returned success, each revolution's
\* span index_end[rev-1]..index_end[rev] has its nr_samples samples (so
\* index_end is non-decreasing), and index_end[R-1] is the buffer size,
\* the sum of the sample counts.
C17_IndexEndMatchesCounts ==
  selRet = <<0>> =>
    LET R == sf.header.nr_revolutions
    IN /\ Len(sf.track.rev) = R
       /\ \A r \in 0..(R - 1) :
            /\ RevHi(sf, r) >= RevLo(sf, r)
            /\ RevHi(sf, r) - RevLo(sf, r) = sf.track.rev[r + 1].nr_samples
       /\ sf.index_ptr[R - 1] = sf.datsz
       /\ sf.datsz = SumSamples(sf.track.rev)
       /\ DatLen(sf) = sf.datsz

\* C18: when the last scp_select_track(tn) returned failure, the session
\* holds no buffer recorded as track tn, so the already-loaded test of the
\* next scp_select_track(tn) fails.
C18_NoBufferAfterFailure ==
  (selRet = <<-1>> /\ pc = "idle" /\ Len(op) = 2) =>
    ~(sf.datp /\ sf.track.track_nr = op[2])
====
